---- MODULE Spec2Model ----
(***************************************************************************)
(* Model of src/app.py: the LINE stock-quote bot.                          *)
(*                                                                         *)
(*   handle_text_message (app.py:144-187)  request intake, the fetch loop, *)
(*                                         block formatting and the reply  *)
(*   get_stock_info      (app.py:40-121)   the quote fetcher               *)
(*                                                                         *)
(* Text is modelled as a sequence of atoms.  An atom is a one-character    *)
(* string, or one of the literal chunks of the f-strings of app.py taken   *)
(* as a single symbol (the labels are written in ASCII here; each names    *)
(* the source line of the literal it stands for).  The line break "\n" is  *)
(* the atom NL.                                                            *)
(*                                                                         *)
(* Python floats are modelled by exact rationals plus inf and nan, with    *)
(* the sign of zero kept.  round(x, 2) is exact except when the decimal    *)
(* value lies exactly half way between two hundredths: there the binary    *)
(* value of the float decides, so both neighbours are possible outcomes.   *)
(***************************************************************************)
EXTENDS Integers, Sequences, FiniteSets, TLC

\* pc       where the handler is: "idle", "loop", "fetching", "done"
\* message  event.message.text of the event being handled
\* token    event.reply_token
\* codes, replies   the locals of handle_text_message; idx: the loop's position
\* outcome  the provider's outcome of the request in flight
\* fetched  the calls of get_stock_info made for this event: code and outcome
\* infos    the dicts get_stock_info returned for this event
\* sent     the calls of line_bot_api.reply_message made for this event
VARIABLES pc, message, token, codes, idx, replies, outcome, fetched, infos, sent

vars == <<pc, message, token, codes, idx, replies, outcome, fetched, infos, sent>>

\* Longest message text enumerated over TextAlphabet.
MaxTextLen == 4

(***************************************************************************)
(* Characters and Python str methods                                       *)
(***************************************************************************)
Digits == <<"0", "1", "2", "3", "4", "5", "6", "7", "8", "9">>

DigitChars == {Digits[i] : i \in 1..Len(Digits)}

\* str.isspace on one character (the alphabets hold the blank only)
IsSpace(c) == c = " "

\* str.isdigit on one character
IsDigit(c) == c \in DigitChars

\* value of a digit character
DigitVal(c) == (CHOOSE i \in 1..Len(Digits) : Digits[i] = c) - 1

\* s.strip(): drop leading and trailing whitespace
Strip(s) ==
  LET keep == {i \in 1..Len(s) : ~IsSpace(s[i])}
      lo == CHOOSE i \in keep : \A j \in keep : i <= j
      hi == CHOOSE i \in keep : \A j \in keep : i >= j
  IN IF keep = {} THEN <<>> ELSE SubSeq(s, lo, hi)

\* s.isdigit(): non-empty and every character a digit
IsDigitStr(s) == Len(s) > 0 /\ \A i \in 1..Len(s) : IsDigit(s[i])

RECURSIVE SplitComma(_)
\* s.split(","): the pieces between commas, empty pieces included
SplitComma(s) ==
  LET commas == {i \in 1..Len(s) : s[i] = ","}
      first == CHOOSE i \in commas : \A j \in commas : i <= j
  IN IF commas = {} THEN <<s>>
     ELSE <<SubSeq(s, 1, first - 1)>> \o SplitComma(SubSeq(s, first + 1, Len(s)))

\* s.replace(",", "")
RemoveCommas(s) == SelectSeq(s, LAMBDA c : c # ",")

\* ParseCodes with the tokens taken untrimmed: [c for c in text.split(",") if c.isdigit()]
ParseCodesUntrimmed(raw) == SelectSeq(SplitComma(Strip(raw)), IsDigitStr)

\* codes of handle_text_message: [c.strip() for c in text.split(",") if c.strip().isdigit()]
\* over text = event.message.text.strip()
ParseCodes(raw) ==
  LET parts == SplitComma(Strip(raw))
      stripped == [i \in 1..Len(parts) |-> Strip(parts[i])]
  IN SelectSeq(stripped, IsDigitStr)

(***************************************************************************)
(* Python values: the JSON values of the provider's fields and the fields  *)
(* of the returned dict.  A str is a sequence of characters; "num" stands  *)
(* for every JSON value that is not a str and not null (a number here).    *)
(***************************************************************************)
None == [t |-> "none", s |-> <<>>, n |-> 0]

Str(s) == [t |-> "str", s |-> s, n |-> 0]

Num(n) == [t |-> "num", s |-> <<>>, n |-> n]

\* the key is not in the provider's item
Missing == [t |-> "missing", s |-> <<>>, n |-> 0]

\* truth value of a Python value in `raw and ...`
Truthy(v) ==
  CASE v.t = "str" -> Len(v.s) > 0
    [] v.t = "num" -> v.n # 0
    [] OTHER -> FALSE

\* info.get(key, ""): the default "" for a missing key
Get(item, key) == IF item[key].t = "missing" THEN Str(<<>>) ELSE item[key]

(***************************************************************************)
(* Python floats                                                           *)
(***************************************************************************)
Fin(neg, num, den) == [k |-> "fin", neg |-> neg, num |-> num, den |-> den]

Inf(neg) == [k |-> "inf", neg |-> neg, num |-> 0, den |-> 1]

NaN == [k |-> "nan", neg |-> FALSE, num |-> 0, den |-> 1]

\* change / change_pct = None
NoFloat == [k |-> "none", neg |-> FALSE, num |-> 0, den |-> 1]

RECURSIVE Pow10(_)
Pow10(n) == IF n = 0 THEN 1 ELSE 10 * Pow10(n - 1)

RECURSIVE DigitsToNat(_)
DigitsToNat(s) ==
  IF s = <<>> THEN 0
  ELSE 10 * DigitsToNat(SubSeq(s, 1, Len(s) - 1)) + DigitVal(s[Len(s)])

RECURSIVE NatToDigits(_)
NatToDigits(n) ==
  IF n < 10 THEN <<Digits[n + 1]>>
  ELSE NatToDigits(n \div 10) \o <<Digits[(n % 10) + 1]>>

RECURSIVE Gcd(_, _)
Gcd(a, b) == IF b = 0 THEN a ELSE Gcd(b, a % b)

\* the finite float num/den, in lowest terms
Ratio(neg, num, den) ==
  LET g == Gcd(num, den) IN Fin(neg, num \div g, den \div g)

\* float(s) on a str: [ok |-> FALSE] is ValueError.  Surrounding whitespace is
\* dropped, one sign is allowed, then inf / nan or digits with at most one point
\* and at least one digit.  (Exponents and digit-group underscores are outside
\* the alphabets used here.)
ParseFloat(s0) ==
  LET s == Strip(s0)
      signed == Len(s) > 0 /\ s[1] \in {"+", "-"}
      neg == signed /\ s[1] = "-"
      body == IF signed THEN SubSeq(s, 2, Len(s)) ELSE s
      dots == {i \in 1..Len(body) : body[i] = "."}
      dot == CHOOSE i \in dots : TRUE
      ip == IF dots = {} THEN body ELSE SubSeq(body, 1, dot - 1)
      fp == IF dots = {} THEN <<>> ELSE SubSeq(body, dot + 1, Len(body))
      alldigits(x) == \A i \in 1..Len(x) : IsDigit(x[i])
      fail == [ok |-> FALSE, val |-> NaN]
  IN IF body = <<"i", "n", "f">> THEN [ok |-> TRUE, val |-> Inf(neg)]
     ELSE IF body = <<"n", "a", "n">> THEN [ok |-> TRUE, val |-> NaN]
     ELSE IF Cardinality(dots) > 1 THEN fail
     ELSE IF ~(alldigits(ip) /\ alldigits(fp)) THEN fail
     ELSE IF Len(ip) + Len(fp) = 0 THEN fail
     ELSE [ok |-> TRUE, val |-> Ratio(neg, DigitsToNat(ip \o fp), Pow10(Len(fp)))]

\* signed numerator of a finite float
SNum(a) == IF a.neg THEN 0 - a.num ELSE a.num

Abs(n) == IF n < 0 THEN 0 - n ELSE n

\* a - b
FSub(a, b) ==
  LET n == SNum(a) * b.den - SNum(b) * a.den
  IN IF a.k = "nan" \/ b.k = "nan" THEN NaN
     ELSE IF a.k = "inf" THEN (IF b.k = "inf" /\ a.neg = b.neg THEN NaN ELSE a)
     ELSE IF b.k = "inf" THEN Inf(~b.neg)
     ELSE Ratio(IF n # 0 THEN n < 0 ELSE (a.neg /\ ~b.neg), Abs(n), a.den * b.den)

\* x / p * 100, for p != 0
FDivMul100(x, p) ==
  LET neg == (x.neg # p.neg)
  IN IF x.k = "nan" \/ p.k = "nan" THEN NaN
     ELSE IF x.k = "inf" THEN (IF p.k = "inf" THEN NaN ELSE Inf(neg))
     ELSE IF p.k = "inf" THEN Fin(neg, 0, 1)
     ELSE Ratio(neg, x.num * p.den * 100, x.den * p.num)

\* f != 0 is false
IsZero(f) == f.k = "fin" /\ f.num = 0

\* Round2 cutting the digits after the second decimal instead of rounding
Round2Truncating(f) ==
  IF f.k # "fin" THEN {f} ELSE {Fin(f.neg, (f.num * 100) \div f.den, 100)}

\* round(f, 2): the possible results, in hundredths.  A decimal tie may go to
\* either neighbour (the float's binary value decides); inf and nan stay.
Round2(f) ==
  LET q == (f.num * 100) \div f.den
      r == (f.num * 100) % f.den
  IN IF f.k # "fin" THEN {f}
     ELSE IF 2 * r < f.den THEN {Fin(f.neg, q, 100)}
     ELSE IF 2 * r > f.den THEN {Fin(f.neg, q + 1, 100)}
     ELSE {Fin(f.neg, q, 100), Fin(f.neg, q + 1, 100)}

(***************************************************************************)
(* get_stock_info (app.py:40-121)                                          *)
(***************************************************************************)
\* The dict of lines 101-109 and 113-121: every field None.
AllNone ==
  [open |-> None, high |-> None, low |-> None, prev |-> None, last |-> None,
   change |-> NoFloat, change_pct |-> NoFloat]

\* lines 71-75: raw if raw and raw != "-" else None
Normalise(raw) == IF Truthy(raw) /\ raw # Str(<<"-">>) THEN raw ELSE None

\* ComputeChange with a last price that does not parse taken as 0.0 instead of
\* leaving both results None
ComputeChangeLenient(prev_close, last_price) ==
  LET neither == [raised |-> FALSE, change |-> NoFloat, change_pct |-> NoFloat]
      attrerr == [raised |-> TRUE, change |-> NoFloat, change_pct |-> NoFloat]
      p == ParseFloat(RemoveCommas(prev_close.s))
      l == ParseFloat(RemoveCommas(last_price.s))
      d == FSub(IF l.ok THEN l.val ELSE Fin(FALSE, 0, 1), p.val)
  IN IF prev_close = None \/ last_price = None THEN {neither}
     ELSE IF prev_close.t # "str" THEN {attrerr}
     ELSE IF ~p.ok THEN {neither}
     ELSE IF last_price.t # "str" THEN {attrerr}
     ELSE {[raised |-> FALSE, change |-> c, change_pct |-> q] :
             c \in Round2(d),
             q \in (IF IsZero(p.val) THEN {NoFloat} ELSE Round2(FDivMul100(d, p.val)))}

\* Lines 77-88.  raised: an exception other than ValueError left the inner try
\* (str.replace on a value that is not a str is an AttributeError).
ComputeChange(prev_close, last_price) ==
  LET neither == [raised |-> FALSE, change |-> NoFloat, change_pct |-> NoFloat]
      attrerr == [raised |-> TRUE, change |-> NoFloat, change_pct |-> NoFloat]
      p == ParseFloat(RemoveCommas(prev_close.s))
      l == ParseFloat(RemoveCommas(last_price.s))
      d == FSub(l.val, p.val)
  IN IF prev_close = None \/ last_price = None THEN {neither}
     ELSE IF prev_close.t # "str" THEN {attrerr}
     ELSE IF ~p.ok THEN {neither}
     ELSE IF last_price.t # "str" THEN {attrerr}
     ELSE IF ~l.ok THEN {neither}
     ELSE {[raised |-> FALSE, change |-> c, change_pct |-> q] :
             c \in Round2(d),
             q \in (IF IsZero(p.val) THEN {NoFloat} ELSE Round2(FDivMul100(d, p.val)))}

\* Lines 63-98 on info = data["msgArray"][0], a dict.
SnapshotsOfItem(info) ==
  LET open_price == Normalise(Get(info, "o"))
      high_price == Normalise(Get(info, "h"))
      low_price == Normalise(Get(info, "l"))
      prev_close == Normalise(Get(info, "y"))
      last_price == Normalise(Get(info, "z"))
  IN {IF r.raised THEN AllNone
      ELSE [open |-> open_price, high |-> high_price, low |-> low_price,
            prev |-> prev_close, last |-> last_price,
            change |-> r.change, change_pct |-> r.change_pct] :
        r \in ComputeChange(prev_close, last_price)}

\* The provider outcomes that end in the except branch (lines 111-121):
\*   transport_error    requests.get raises (connection error, timeout)
\*   http_error         raise_for_status raises
\*   invalid_json       resp.json raises
\*   json_not_container data is null or a number: `in` raises TypeError
\*   msgArray_not_list  msgArray is null, a number, a non-empty str or dict:
\*                      len, [0] or .get raises
\*   item_not_object    msgArray[0] is not a dict: .get raises AttributeError
ExceptKinds ==
  {"transport_error", "http_error", "invalid_json", "json_not_container",
   "msgArray_not_list", "item_not_object"}

\* The outcomes that fall through the `if` of line 62 to lines 101-109.
EmptyKinds == {"no_msgArray", "msgArray_empty"}

\* get_stock_info: the dicts it can return for a provider outcome.
get_stock_info(out) ==
  IF out.kind \in ExceptKinds THEN {AllNone}
  ELSE IF out.kind \in EmptyKinds THEN {AllNone}
  ELSE SnapshotsOfItem(out.item)

(***************************************************************************)
(* Reply text (app.py:150, 165-186).  The literals of the f-strings, each  *)
(* one atom; the Chinese labels are named, not spelled.                    *)
(***************************************************************************)
NL == "\n"

\* line 150: the fixed prompt for valid input
Prompt == "<prompt: enter a valid stock code, e.g. 2330 or 2330,0050>"

\* line 166: the text after {code} in the no-quote line
NoQuoteTail == "< no real-time quote or not traded yet.>"

\* lines 168-174: the em-dash placeholder
EmDash == "<em-dash>"

\* lines 177-183: the text before each value, and the unit after the first six
OpenLabel == "< open:>"

HighLabel == "<      high:>"

LowLabel == "<      low:>"

PrevLabel == "<      prev close:>"

LastLabel == "<      last:>"

ChangeLabel == "<      change:>"

PctLabel == "<      change pct:>"

Yuan == "< yuan>"

\* f"{v}" of a field value that is not None
ToText(v) ==
  IF v.t = "str" THEN v.s
  ELSE IF v.n < 0 THEN <<"-">> \o NatToDigits(0 - v.n)
  ELSE NatToDigits(v.n)

\* FormatSigned without the "+" flag: f"{c:.2f}"
FormatSignedNoPlus(c) ==
  LET sign == IF c.neg THEN <<"-">> ELSE <<>>
      cents == c.num % 100
  IN IF c.k = "nan" THEN <<"n", "a", "n">>
     ELSE IF c.k = "inf" THEN sign \o <<"i", "n", "f">>
     ELSE sign \o NatToDigits(c.num \div 100) \o <<".">>
            \o <<Digits[(cents \div 10) + 1], Digits[(cents % 10) + 1]>>

\* f"{c:+.2f}" of a float already rounded to hundredths (or inf, nan)
FormatSigned(c) ==
  LET sign == IF c.neg THEN "-" ELSE "+"
      cents == c.num % 100
  IN IF c.k = "nan" THEN <<"+", "n", "a", "n">>
     ELSE IF c.k = "inf" THEN <<sign, "i", "n", "f">>
     ELSE <<sign>> \o NatToDigits(c.num \div 100) \o <<".">>
            \o <<Digits[(cents \div 10) + 1], Digits[(cents % 10) + 1]>>

\* lines 168-171: value if value is not None else em-dash
OrDash(v) == IF v # None THEN ToText(v) ELSE <<EmDash>>

\* NoQuote testing the whole dict instead of last alone
NoQuoteAllAbsent(info) == info = AllNone

\* line 165: the branch taken for this dict
NoQuote(info) == info.last = None

\* lines 165-184: the block appended to replies for one code
FormatBlock(code, info) ==
  LET change_str == IF info.change # NoFloat THEN FormatSigned(info.change)
                    ELSE <<EmDash>>
      change_pct_str == IF info.change_pct # NoFloat
                        THEN FormatSigned(info.change_pct) \o <<"%">>
                        ELSE <<EmDash>>
  IN IF NoQuote(info) THEN code \o <<NoQuoteTail>>
     ELSE code \o <<OpenLabel>> \o OrDash(info.open) \o <<Yuan, NL>>
          \o <<HighLabel>> \o OrDash(info.high) \o <<Yuan, NL>>
          \o <<LowLabel>> \o OrDash(info.low) \o <<Yuan, NL>>
          \o <<PrevLabel>> \o OrDash(info.prev) \o <<Yuan, NL>>
          \o <<LastLabel>> \o ToText(info.last) \o <<Yuan, NL>>
          \o <<ChangeLabel>> \o change_str \o <<Yuan, NL>>
          \o <<PctLabel>> \o change_pct_str

RECURSIVE JoinBlocksSingleBreak(_)
\* JoinBlocks with one line break between blocks: "\n".join(replies)
JoinBlocksSingleBreak(rs) ==
  IF Len(rs) = 0 THEN <<>>
  ELSE IF Len(rs) = 1 THEN rs[1]
  ELSE rs[1] \o <<NL>> \o JoinBlocksSingleBreak(Tail(rs))

RECURSIVE JoinBlocks(_)
\* line 186: "\n\n".join(replies)
JoinBlocks(rs) ==
  IF Len(rs) = 0 THEN <<>>
  ELSE IF Len(rs) = 1 THEN rs[1]
  ELSE rs[1] \o <<NL, NL>> \o JoinBlocks(Tail(rs))

(***************************************************************************)
(* Inputs: message texts, reply tokens, provider outcomes                  *)
(***************************************************************************)
TextAlphabet == {"2", "0", "a", ",", " "}

\* the message of the intake example
ExampleText ==
  <<"2", "3", "3", "0", ",", " ", "a", "b", "c", " ", ",", "0", "0", "5", "0", ",">>

\* the message of the example without a valid code
NoCodeText == <<"a", "b", "c", ",", "d", "e", "f">>

\* event.message.text: every text over TextAlphabet up to MaxTextLen, and the examples
Texts ==
  UNION {[1..n -> TextAlphabet] : n \in 0..MaxTextLen} \cup {ExampleText, NoCodeText}

\* the texts used where the provider outcomes are explored in full
FetchTexts == {<<"2", "3", "3", "0">>, <<"a">>}

\* event.reply_token
Tokens == {"tokenA", "tokenB"}

NoItem == [o |-> Missing, h |-> Missing, l |-> Missing, y |-> Missing, z |-> Missing]

\* outcome of one provider request that yields no item
Failure(kind) == [kind |-> kind, item |-> NoItem]

\* outcome whose data["msgArray"][0] is a dict with these values under o, h, l, y, z
Item(o, h, l, y, z) ==
  [kind |-> "item", item |-> [o |-> o, h |-> h, l |-> l, y |-> y, z |-> z]]

\* no request in flight
NoOutcome == [kind |-> "none", item |-> NoItem]

S580 == <<"5", "8", "0">>

S583 == <<"5", "8", "3">>

\* (y, z) of the provider's item: previous close and last price
QuotePairs ==
  {<<Str(S580), Str(S583)>>,
   <<Str(S583), Str(S580)>>,
   <<Str(S580), Str(S580)>>,
   <<Str(<<"5", "8", "0", ".", "0", "0", "0", "0">>),
     Str(<<"5", "8", "3", ".", "5", "0", "0", "0">>)>>,
   <<Str(<<"1", ",", "2", "3", "4", ".", "5", "0">>),
     Str(<<"1", ",", "2", "4", "0", ".", "0", "0">>)>>,
   <<Str(<<"0">>), Str(S583)>>,
   <<Str(<<"0", ".", "0", "0">>), Str(<<"0">>)>>,
   <<Str(<<"-">>), Str(S583)>>,
   <<Str(S580), Str(<<"-">>)>>,
   <<Str(S580), Str(<<>>)>>,
   <<Missing, Missing>>,
   <<None, Str(S583)>>,
   <<Str(<<"a", "b", "c">>), Str(S583)>>,
   <<Str(S580), Str(<<"5", "a">>)>>,
   <<Str(<<",">>), Str(S583)>>,
   <<Str(<<" ", "5", "8", "0">>), Str(<<"5", "8", "3", " ">>)>>,
   <<Str(S580), Str(<<"5", "8", "0", ".", "0", "0", "5">>)>>,
   <<Str(S580), Str(<<"5", "7", "9", ".", "9", "9", "9">>)>>,
   <<Str(<<"1", "6", "0">>), Str(<<"1", "6", "1">>)>>,
   <<Str(<<"i", "n", "f">>), Str(S583)>>,
   <<Str(S580), Str(<<"i", "n", "f">>)>>,
   <<Str(<<"i", "n", "f">>), Str(<<"i", "n", "f">>)>>,
   <<Str(<<"n", "a", "n">>), Str(S583)>>,
   <<Num(580), Str(S583)>>,
   <<Str(S580), Num(583)>>,
   <<Str(<<"a", "b", "c">>), Num(583)>>,
   <<Missing, Num(583)>>,
   <<Num(580), Missing>>}

OpenValues == {Missing, None, Str(<<"-">>), Str(S580), Num(580)}

HighValues == {Str(<<"-">>), Str(<<"5", "8", "5">>)}

LowValues == {Str(<<>>), Str(<<"5", "7", "8">>)}

\* every provider outcome explored
FetchOutcomes ==
  {Failure(k) : k \in ExceptKinds \cup EmptyKinds}
  \cup {Item(o, h, l, q[1], q[2]) :
          o \in OpenValues, h \in HighValues, l \in LowValues, q \in QuotePairs}

\* the outcomes explored for messages of several codes
HandlerOutcomes ==
  {Failure("transport_error"),
   Failure("msgArray_empty"),
   Item(Str(S580), Str(<<"5", "8", "5">>), Str(<<"5", "7", "8">>), Str(S580), Str(S583)),
   Item(Str(S580), Str(<<"5", "8", "5">>), Str(<<"5", "7", "8">>), Str(S580), Str(<<"-">>)),
   Item(Missing, Str(<<"-">>), Str(<<>>), Str(<<"a", "b", "c">>), Str(S583))}

(***************************************************************************)
(* handle_text_message (app.py:144-187)                                    *)
(***************************************************************************)
\* NoCodes as `codes is None`, which a list never is
NoCodesIsNone(cs) == FALSE

\* LoopDone one step early: the last code is never fetched
LoopDoneEarly(i, cs) == i >= Len(cs)

\* NextReplies starting the list again when the fetch gave no data
NextRepliesRestartOnFailure(rs, code, info) ==
  IF info = AllNone THEN <<FormatBlock(code, info)>>
  ELSE Append(rs, FormatBlock(code, info))

\* line 149
NoCodes(cs) == Len(cs) = 0

\* line 155: the for loop has no code left
LoopDone(i, cs) == i > Len(cs)

\* lines 165-184: replies.append(block)
NextReplies(rs, code, info) == Append(rs, FormatBlock(code, info))

Init ==
  /\ pc = "idle"
  /\ message = <<>>
  /\ token = "none"
  /\ codes = <<>>
  /\ idx = 0
  /\ replies = <<>>
  /\ outcome = NoOutcome
  /\ fetched = <<>>
  /\ infos = <<>>
  /\ sent = <<>>

\* Lines 145-154: the dispatcher calls the handler with a text-message event;
\* intake, and the short circuit of lines 149-152 when no code is left.
HandleEvent(T) ==
  /\ pc = "idle"
  /\ \E raw \in T, tok \in Tokens :
       LET cs == ParseCodes(raw)
       IN /\ message' = raw
          /\ token' = tok
          /\ codes' = cs
          /\ replies' = <<>>
          /\ IF NoCodes(cs)
             THEN /\ sent' = Append(sent, [token |-> tok, text |-> <<Prompt>>])
                  /\ idx' = 0
                  /\ pc' = "done"
             ELSE /\ sent' = sent
                  /\ idx' = 1
                  /\ pc' = "loop"
  /\ UNCHANGED <<outcome, fetched, infos>>

\* Lines 155-156 and 52-54: the loop calls get_stock_info(code), which sends the
\* request; the provider's outcome is chosen here.
CallFetch(O) ==
  /\ pc = "loop"
  /\ ~LoopDone(idx, codes)
  /\ \E out \in O :
       /\ outcome' = out
       /\ fetched' = Append(fetched, [code |-> codes[idx], outcome |-> out])
  /\ pc' = "fetching"
  /\ UNCHANGED <<message, token, codes, idx, replies, infos, sent>>

\* Lines 54-121 and 157-184: get_stock_info returns its dict, the block of the
\* code is appended, the loop moves on.
ReturnFetch ==
  /\ pc = "fetching"
  /\ \E info \in get_stock_info(outcome) :
       /\ infos' = Append(infos, info)
       /\ replies' = NextReplies(replies, codes[idx], info)
  /\ idx' = idx + 1
  /\ outcome' = NoOutcome
  /\ pc' = "loop"
  /\ UNCHANGED <<message, token, codes, fetched, sent>>

\* Lines 186-187: join the blocks and reply.
SendReply ==
  /\ pc = "loop"
  /\ LoopDone(idx, codes)
  /\ sent' = Append(sent, [token |-> token, text |-> JoinBlocks(replies)])
  /\ pc' = "done"
  /\ UNCHANGED <<message, token, codes, idx, replies, outcome, fetched, infos>>

\* The handler returns (line 152 or the end of the function); its locals and the
\* record of what it did are dropped before the next event.
Return ==
  /\ pc = "done"
  /\ pc' = "idle"
  /\ message' = <<>>
  /\ token' = "none"
  /\ codes' = <<>>
  /\ idx' = 0
  /\ replies' = <<>>
  /\ outcome' = NoOutcome
  /\ fetched' = <<>>
  /\ infos' = <<>>
  /\ sent' = <<>>

Next ==
  \/ HandleEvent(Texts)
  \/ CallFetch(HandlerOutcomes)
  \/ ReturnFetch
  \/ SendReply
  \/ Return

\* Messages of any text, each fetch ending in one of HandlerOutcomes.
Spec == Init /\ [][Next]_vars

FetchNext ==
  \/ HandleEvent(FetchTexts)
  \/ CallFetch(FetchOutcomes)
  \/ ReturnFetch
  \/ SendReply
  \/ Return

\* Messages of one code (or none), each fetch ending in any of FetchOutcomes.
FetchSpec == Init /\ [][FetchNext]_vars

(***************************************************************************)
(* Request intake: C5, C6                                                  *)
(***************************************************************************)
\* The codes of a message text, stated on positions: a token lies between two
\* neighbouring commas (or an end of the text); it counts when it holds a
\* character that is not blank and everything from its first to its last such
\* character is a digit; the code is that stretch.
RefCodes(t) ==
  LET n == Len(t)
      commas == {i \in 1..n : t[i] = ","}
      ends == commas \cup {n + 1}
      endOf(b) == CHOOSE e \in ends : e > b /\ \A f \in ends : f > b => e <= f
      inner(b) == {i \in (b + 1)..(endOf(b) - 1) : t[i] # " "}
      lo(b) == CHOOSE i \in inner(b) : \A j \in inner(b) : i <= j
      hi(b) == CHOOSE i \in inner(b) : \A j \in inner(b) : i >= j
      good(b) == inner(b) # {} /\ \A i \in lo(b)..hi(b) : t[i] \in DigitChars
      starts == {b \in commas \cup {0} : good(b)}
      kth(k) == CHOOSE b \in starts : Cardinality({c \in starts : c < b}) = k - 1
  IN [k \in 1..Cardinality(starts) |-> SubSeq(t, lo(kth(k)), hi(kth(k)))]

\* C5: once the handler has taken a message in, codes is exactly the trimmed
\* all-digit comma-separated tokens of the text, in order, duplicates kept; the
\* example text gives 2330, 0050.
C5_IntakeCodes ==
  pc # "idle" =>
    /\ codes = RefCodes(message)
    /\ message = ExampleText =>
         codes = <<(<<"2", "3", "3", "0">>), (<<"0", "0", "5", "0">>)>>

C5_Witness == pc = "loop" /\ message = ExampleText /\ Len(codes) = 2

\* C6: a message without a valid code gets the fixed prompt as its reply, and
\* get_stock_info is never called for it.
C6_NoCodesPromptNoFetch ==
  (pc # "idle" /\ Len(RefCodes(message)) = 0) =>
    /\ pc = "done"
    /\ sent = <<[token |-> token, text |-> <<Prompt>>]>>
    /\ fetched = <<>>
    /\ infos = <<>>

C6_Witness ==
  /\ pc = "done"
  /\ message = NoCodeText
  /\ Len(sent) = 1
  /\ fetched = <<>>

(***************************************************************************)
(* The fetch loop and the reply: C7, C8, C10                               *)
(***************************************************************************)
\* positions at which a double line break starts
Breaks(t) == {i \in 1..(Len(t) - 1) : t[i] = NL /\ t[i + 1] = NL}

\* first atom of each block of a reply text: 1 and what follows each double break
BlockStarts(t) == {1} \cup {i + 2 : i \in Breaks(t)}

\* the k-th block start, from the left
KthStart(t, k) ==
  CHOOSE b \in BlockStarts(t) : Cardinality({c \in BlockStarts(t) : c < b}) = k - 1

\* the block of text t that starts at b
BlockAt(t, b) ==
  LET later == {i \in Breaks(t) : i >= b}
      stop == IF later = {} THEN Len(t) + 1
              ELSE CHOOSE i \in later : \A j \in later : i <= j
  IN SubSeq(t, b, stop - 1)

\* block b opens with the code, then the first literal of either kind of block
IsBlockFor(b, code) ==
  /\ Len(b) > Len(code)
  /\ SubSeq(b, 1, Len(code)) = code
  /\ b[Len(code) + 1] \in {OpenLabel, NoQuoteTail}

\* C7: get_stock_info is called once per code occurrence, in order, each call
\* returning before the next; with N >= 1 codes the reply text is N blocks in
\* that order, separated by a double line break.
C7_FetchPerCodeInOrder ==
  /\ Len(fetched) <= Len(codes)
  /\ \A j \in 1..Len(fetched) : fetched[j].code = codes[j]
  /\ Len(infos) = (IF pc = "fetching" THEN Len(fetched) - 1 ELSE Len(fetched))
  /\ (pc = "done" /\ Len(codes) >= 1) =>
       /\ Len(fetched) = Len(codes)
       /\ Len(sent) = 1
       /\ Cardinality(BlockStarts(sent[1].text)) = Len(codes)
       /\ \A k \in 1..Len(codes) :
            LET b == BlockAt(sent[1].text, KthStart(sent[1].text, k))
            IN IsBlockFor(b, codes[k]) /\ b = replies[k]

C7_Witness ==
  /\ pc = "done"
  /\ Len(codes) = 2
  /\ codes[1] = codes[2]
  /\ Len(fetched) = 2
  /\ Len(sent) = 1

\* C8: the block of each code depends on that code and on the outcome of its own
\* fetch alone, whatever happened to the other fetches, and no outcome ends the
\* loop early.  (Two runs that agree on code j and on the outcome of fetch j
\* therefore agree on block j.)
C8_BlockFromOwnFetch ==
  /\ Len(replies) = Len(infos)
  /\ \A j \in 1..Len(replies) :
       replies[j] \in {FormatBlock(codes[j], s) : s \in get_stock_info(fetched[j].outcome)}
  /\ pc = "done" => Len(replies) = Len(codes)

C8_Witness ==
  /\ pc = "done"
  /\ Len(replies) = 2
  /\ codes[1] # codes[2]
  /\ fetched[1].outcome.kind = "transport_error"
  /\ infos[2].last # None

\* C10: the handler replies exactly once per event, with the token of the event,
\* after every fetch of the message has returned; it is done only when it has
\* replied.
C10_ReplyOnceAfterFetches ==
  /\ Len(sent) <= 1
  /\ pc = "done" <=> Len(sent) = 1
  /\ Len(sent) = 1 =>
       /\ sent[1].token = token
       /\ Len(fetched) = Len(codes)
       /\ Len(infos) = Len(codes)

C10_Witness ==
  /\ pc = "done"
  /\ Len(codes) = 2
  /\ infos = <<AllNone, AllNone>>
  /\ Len(sent) = 1
  /\ sent[1].token = "tokenB"

(***************************************************************************)
(* The quote fetcher: C1, C2, C3                                           *)
(***************************************************************************)
\* a JSON value of a type the fetcher does not expect in a field
UnexpectedType(v) == v.t = "num"

\* the failure outcomes of C1: no item at all, or an item with such a field
FailureOutcome(out) ==
  \/ out.kind \in ExceptKinds \cup EmptyKinds
  \/ /\ out.kind = "item"
     /\ \E key \in {"o", "h", "l", "y", "z"} : UnexpectedType(out.item[key])

\* C1: get_stock_info returns a dict for every outcome (it never raises), and
\* for every failure outcome the dict has all seven fields None.
C1_FailuresReturnAllAbsent ==
  \A j \in 1..Len(infos) :
    FailureOutcome(fetched[j].outcome) => infos[j] = AllNone

\* the value is a str that float() accepts once its commas are removed
Parses(v) == v.t = "str" /\ ParseFloat(RemoveCommas(v.s)).ok

\* C2: in every returned dict, prev or last None, or either one not parsing as
\* a number, leaves change and change_pct both None; change_pct is never
\* present without change.
C2_NoPartialChange ==
  \A j \in 1..Len(infos) :
    LET r == infos[j]
    IN /\ (r.prev = None \/ r.last = None \/ ~Parses(r.prev) \/ ~Parses(r.last))
            => (r.change = NoFloat /\ r.change_pct = NoFloat)
       /\ r.change_pct # NoFloat => r.change # NoFloat

C2_Witness ==
  /\ Len(infos) = 1
  /\ infos[1].prev = Str(S580)
  /\ infos[1].last = Str(<<"5", "a">>)
  /\ infos[1].change = NoFloat

\* c, in hundredths, is a hundredth nearest to the rational n / d (d > 0)
NearestHundredth(c, n, d) == 2 * Abs(c * d - 100 * n) <= d

\* C3: for an item whose y and z both parse as numbers, change is last - prev
\* rounded to 2 decimals; change_pct is (last - prev) / prev * 100 rounded to 2
\* decimals when prev is not zero, and None when prev is zero.  (With inf or nan
\* among the two, the results are the floats inf or nan.)
C3_ChangeValues ==
  \A j \in 1..Len(infos) :
    LET it == fetched[j].outcome.item
        r == infos[j]
        p == ParseFloat(RemoveCommas(it.y.s)).val
        l == ParseFloat(RemoveCommas(it.z.s)).val
        dn == SNum(l) * p.den - SNum(p) * l.den
        dd == l.den * p.den
    IN (fetched[j].outcome.kind = "item" /\ Parses(it.y) /\ Parses(it.z)) =>
         IF p.k = "fin" /\ l.k = "fin"
         THEN /\ r.change.k = "fin" /\ r.change.den = 100
              /\ NearestHundredth(SNum(r.change), dn, dd)
              /\ IF p.num = 0 THEN r.change_pct = NoFloat
                 ELSE /\ r.change_pct.k = "fin" /\ r.change_pct.den = 100
                      /\ NearestHundredth(SNum(r.change_pct),
                                          100 * dn * p.den, dd * SNum(p))
                         \/ NearestHundredth(0 - SNum(r.change_pct),
                                             100 * dn * p.den, 0 - dd * SNum(p))
         ELSE r.change.k \in {"inf", "nan"} /\ r.change_pct.k \in {"inf", "nan"}

C3_Witness ==
  /\ Len(infos) = 1
  /\ fetched[1].outcome.item.y = Str(S580)
  /\ fetched[1].outcome.item.z = Str(S583)
  /\ infos[1].change = Fin(FALSE, 300, 100)
  /\ infos[1].change_pct = Fin(FALSE, 52, 100)

(***************************************************************************)
(* The blocks of the reply: C4, C9                                         *)
(***************************************************************************)
RECURSIVE SplitLines(_)
\* the lines of a text: the stretches between line breaks
SplitLines(t) ==
  LET nls == {i \in 1..Len(t) : t[i] = NL}
      first == CHOOSE i \in nls : \A j \in nls : i <= j
  IN IF nls = {} THEN <<t>>
     ELSE <<SubSeq(t, 1, first - 1)>> \o SplitLines(SubSeq(t, first + 1, Len(t)))

\* C4: a dict with last None gives exactly the one line "<code> no quote",
\* whatever its other fields; a dict with last present never gives that line.
C4_NoQuoteLine ==
  \A j \in 1..Len(replies) :
    (infos[j].last = None) <=> (replies[j] = codes[j] \o <<NoQuoteTail>>)

C4_Witness ==
  /\ Len(replies) = 1
  /\ infos[1].last = None
  /\ infos[1].open # None
  /\ infos[1].high # None
  /\ infos[1].prev # None
  /\ replies[1] = codes[1] \o <<NoQuoteTail>>

\* x shows the finite float c, in hundredths, as sign, digits, point, two digits
ShowsSigned2(x, c) ==
  /\ Len(x) >= 5
  /\ c.den = 100
  /\ x[1] = (IF c.neg THEN "-" ELSE "+")
  /\ x[Len(x) - 2] = "."
  /\ IsDigitStr(SubSeq(x, 2, Len(x) - 3))
  /\ IsDigitStr(SubSeq(x, Len(x) - 1, Len(x)))
  /\ 100 * DigitsToNat(SubSeq(x, 2, Len(x) - 3))
       + DigitsToNat(SubSeq(x, Len(x) - 1, Len(x))) = c.num

\* x shows inf or nan: a sign and the word
ShowsNonFinite(x, c) ==
  \/ c.k = "inf" /\ x = <<(IF c.neg THEN "-" ELSE "+"), "i", "n", "f">>
  \/ c.k = "nan" /\ x = <<"+", "n", "a", "n">>

\* x shows change or change_pct c: the em-dash when None, else signed with two
\* decimals; finiteOnly: inf and nan are not allowed for
ShowsChange(x, c, finiteOnly) ==
  IF c = NoFloat THEN x = <<EmDash>>
  ELSE IF c.k = "fin" THEN ShowsSigned2(x, c)
  ELSE ~finiteOnly /\ ShowsNonFinite(x, c)

\* x shows a field: the em-dash when None, else its text
ShowsField(x, v) == x = (IF v = None THEN <<EmDash>> ELSE ToText(v))

\* line is label, then a text satisfying shows, then the unit
LabelledLine(line, label, shows(_)) ==
  /\ Len(line) >= 2
  /\ line[1] = label
  /\ line[Len(line)] = Yuan
  /\ shows(SubSeq(line, 2, Len(line) - 1))

\* The lines ls of the block of code and info: the seven labelled values in order.
BlockContent(ls, code, info, finiteOnly) ==
  /\ Len(ls[1]) > Len(code)
  /\ SubSeq(ls[1], 1, Len(code)) = code
  /\ LabelledLine(SubSeq(ls[1], Len(code) + 1, Len(ls[1])), OpenLabel,
                  LAMBDA x : ShowsField(x, info.open))
  /\ LabelledLine(ls[2], HighLabel, LAMBDA x : ShowsField(x, info.high))
  /\ LabelledLine(ls[3], LowLabel, LAMBDA x : ShowsField(x, info.low))
  /\ LabelledLine(ls[4], PrevLabel, LAMBDA x : ShowsField(x, info.prev))
  /\ LabelledLine(ls[5], LastLabel, LAMBDA x : ShowsField(x, info.last))
  /\ LabelledLine(ls[6], ChangeLabel, LAMBDA x : ShowsChange(x, info.change, finiteOnly))
  /\ Len(ls[7]) >= 2
  /\ ls[7][1] = PctLabel
  /\ LET y == SubSeq(ls[7], 2, Len(ls[7]))
     IN IF info.change_pct = NoFloat THEN y = <<EmDash>>
        ELSE /\ y[Len(y)] = "%"
             /\ ShowsChange(SubSeq(y, 1, Len(y) - 1), info.change_pct, finiteOnly)

\* C9 as stated: the block of a dict with last present has six lines, holding
\* the seven labelled values in order, a present change or change_pct always
\* shown as sign and two decimals.
C9_SixLineBlock ==
  \A j \in 1..Len(replies) :
    infos[j].last # None =>
      LET ls == SplitLines(replies[j])
      IN Len(ls) = 6 /\ BlockContent(ls, codes[j], infos[j], TRUE)

\* C9 as amended: the block has seven lines (six line breaks), one per labelled
\* value, in order: open, high, low, previous close, last, change, change
\* percent; None fields show the em-dash; a present finite change or change_pct
\* shows its sign and two decimals (change_pct followed by %), and inf or nan
\* shows as the sign and the word.
C9_SevenLineBlock ==
  \A j \in 1..Len(replies) :
    infos[j].last # None =>
      LET ls == SplitLines(replies[j])
      IN Len(ls) = 7 /\ BlockContent(ls, codes[j], infos[j], FALSE)

C9_Witness ==
  /\ Len(replies) = 1
  /\ infos[1].last = Str(S583)
  /\ infos[1].open = None
  /\ infos[1].change = Fin(FALSE, 300, 100)
  /\ infos[1].change_pct = Fin(FALSE, 52, 100)
  /\ Len(SplitLines(replies[1])) = 7

====
